---- MODULE Spec2Model ----
(***************************************************************************)
(* Model of the document preview cache of src/app/page.tsx (component      *)
(* Home): the four React state stores previews / largePreviews /           *)
(* loadingPreviews / previewErrors, the asynchronous generatePreview       *)
(* tasks the message-list effect starts, handleSubmit, handlePreviewClick  *)
(* and the thumbnail view.                                                  *)
(*                                                                         *)
(* JavaScript runs each continuation to completion, so one action is the   *)
(* code between two awaits.  State updates issued in one continuation are  *)
(* batched by React 18 (the file is a 'use client' component) and become   *)
(* visible together.                                                       *)
(***************************************************************************)
EXTENDS Integers, Sequences, FiniteSets, Bags, TLC

VARIABLES
    messages,         \* useState<Message[]>            page.tsx:48
    input,            \* useState('')                   page.tsx:49
    isLoading,        \* useState(false)                page.tsx:50
    previews,         \* useState<Map<string,string>>   page.tsx:51
    largePreviews,    \* useState<Map<string,string>>   page.tsx:52
    loadingPreviews,  \* useState<Set<string>>          page.tsx:53
    previewErrors,    \* useState<Map<string,string>>   page.tsx:54
    selectedPreview,  \* useState<DocumentPreview|null> page.tsx:55
    tasks,            \* bag of generatePreview calls that have not returned
    fetches,          \* number of handleSubmit calls suspended in fetch
    invocations,      \* history: renderer invocations started, per key
    rejected,       \* history: generatePreview promises that rejected
    effectCalls,      \* history: arguments of the generatePreview calls of the
                      \* latest run of the message-list effect, in call order
    citA, citB,       \* inputs of the key-derivation specification
    keyA, keyB        \* their derived keys (<<>> before derivation)

vars == <<messages, input, isLoading, previews, largePreviews,
          loadingPreviews, previewErrors, selectedPreview, tasks, fetches,
          invocations, rejected, effectCalls, citA, citB, keyA, keyB>>

storeVars == <<previews, largePreviews, loadingPreviews, previewErrors>>
chatVars  == <<messages, input, isLoading, fetches, effectCalls>>
keyVars   == <<citA, citB, keyA, keyB>>

(***************************************************************************)
(* Bounds.                                                                 *)
(***************************************************************************)
MaxMessages == 4      \* length of the message list
MaxDocs     == 1      \* citations in one backend answer
MaxTasks    == 2      \* generatePreview calls that have not returned
MaxPage     == 2      \* page numbers 1..MaxPage of the key derivation
MaxLocatorLen == 2    \* length of the locators of the key-injectivity check
MaxPageNumber == 11   \* page numbers 1..MaxPageNumber of that check

Pages == 1..MaxPage

\* Document locators are strings, modelled as sequences of characters.
Bases == { <<"a">>, <<"b">> }
Decorations == { <<>>, <<"#", "p">>, <<"?", "v">>,
                 <<"?", "v", "#", "p">>, <<"#", "p", "?", "v">> }
RawUrls == { b \o d : b \in Bases, d \in Decorations }

(***************************************************************************)
(* String helpers.                                                         *)
(***************************************************************************)
\* s.split(sep)[0]: the part of s before the first occurrence of sep
RECURSIVE SplitFirst(_, _)
SplitFirst(s, sep) ==
    IF s = <<>> THEN <<>>
    ELSE IF Head(s) = sep THEN <<>>
    ELSE <<Head(s)>> \o SplitFirst(Tail(s), sep)

\* variant of cleanUrl that strips the fragment but not the query
cleanUrlFragmentOnly(url) == SplitFirst(url, "#")

\* doc.url.split('#')[0].split('?')[0]
cleanUrl(url) == SplitFirst(SplitFirst(url, "#"), "?")

Digit(d) == CASE d = 0 -> "0" [] d = 1 -> "1" [] d = 2 -> "2" [] d = 3 -> "3"
              [] d = 4 -> "4" [] d = 5 -> "5" [] d = 6 -> "6" [] d = 7 -> "7"
              [] d = 8 -> "8" [] d = 9 -> "9"

\* template-literal conversion of a non-negative integer to decimal digits
RECURSIVE NumberToString(_)
NumberToString(n) ==
    IF n < 10 THEN <<Digit(n)>>
    ELSE NumberToString(n \div 10) \o <<Digit(n % 10)>>

\* variant of previewKey without the separator
previewKeyNoSeparator(url, page) == url \o NumberToString(page)

\* `${url}_${page}`
previewKey(url, page) == url \o <<"_">> \o NumberToString(page)

\* the key handlePreviewClick and handleSubmit compute from a citation
deriveKey(doc) == previewKey(cleanUrl(doc.url), doc.page)

Citations == [url : RawUrls, page : Pages]

\* the citations the backend answers with: the first page of each document,
\* under every decoration
AnswerCitations == { c \in Citations : c.page = 1 }
StoredDocs ==
    { [url |-> cleanUrl(c.url), page |-> c.page] : c \in AnswerCitations }
Keys == { previewKey(d.url, d.page) : d \in StoredDocs }

(***************************************************************************)
(* Map helpers (JavaScript Map as a function on its key set).              *)
(***************************************************************************)
\* every string value is a sequence of characters; these two are sentinels
undefined == <<"undefined">>
null == <<>>

MapHas(m, k) == k \in DOMAIN m
MapGet(m, k) == IF k \in DOMAIN m THEN m[k] ELSE undefined
MapSet(m, k, v) == [x \in (DOMAIN m) \cup {k} |-> IF x = k THEN v ELSE m[x]]
EmptyMap == [x \in {} |-> undefined]

\* JavaScript truthiness of a string-or-undefined value
Truthy(v) == v # undefined /\ v # <<>>

\* canvas.toDataURL() of the page rendered at the given scale
toDataURL(scale, doc) == <<scale>> \o previewKey(doc.url, doc.page)

(***************************************************************************)
(* Initial state: the state after the first render of Home.                *)
(***************************************************************************)
NoCitation == [url |-> <<>>, page |-> 1]

Init ==
    /\ messages = <<>>
    /\ input = <<>>
    /\ isLoading = FALSE
    /\ previews = EmptyMap
    /\ largePreviews = EmptyMap
    /\ loadingPreviews = {}
    /\ previewErrors = EmptyMap
    /\ selectedPreview = null
    /\ tasks = EmptyBag
    /\ fetches = 0
    /\ invocations = [k \in Keys |-> 0]
    /\ rejected = FALSE
    /\ effectCalls = <<>>
    /\ citA = NoCitation /\ citB = NoCitation
    /\ keyA = <<>> /\ keyB = <<>>

(***************************************************************************)
(* The message-list effect, useEffect(..., [messages]).                    *)
(***************************************************************************)
\* the citations of every message, in message order
RECURSIVE AllDocuments(_)
AllDocuments(msgs) ==
    IF msgs = <<>> THEN <<>>
    ELSE Head(msgs).documents \o AllDocuments(Tail(msgs))

\* A generatePreview call suspended in `await configurePdfjs()`.  Its closure
\* holds the Map object `previews` of the render that ran the effect: while
\* that object is the current state it is read live; a later setPreviews
\* mutates it once more (prev.set) and then replaces it by a copy, after
\* which the closure keeps seeing the keys in `snap`.
NewTask(doc) == [doc |-> doc, pc |-> "configurePdfjs", live |-> TRUE, snap |-> {}]

RECURSIVE StartAll(_, _)
StartAll(bag, docs) ==
    IF docs = <<>> THEN bag
    ELSE StartAll(bag (+) SetToBag({NewTask(Head(docs))}), Tail(docs))

\* variant of MessagesEffect that submits only the citations of the message
\* just appended
MessagesEffectLastOnly(msgs) ==
    StartAll(tasks, IF msgs = <<>> THEN <<>> ELSE msgs[Len(msgs)].documents)

\* messages.forEach(m => m.documents?.forEach(doc => generatePreview(doc)))
MessagesEffect(msgs) == StartAll(tasks, AllDocuments(msgs))

\* the arguments of the generatePreview calls of that run, in call order
EffectCalls(msgs) == AllDocuments(msgs)

CanAppend(msgs) ==
    /\ Len(msgs) <= MaxMessages
    /\ BagCardinality(tasks) + Len(AllDocuments(msgs)) <= MaxTasks

(***************************************************************************)
(* handleSubmit and the input field.                                       *)
(***************************************************************************)
\* <Input onChange={e => setInput(e.target.value)} disabled={isLoading}/>
SetInput ==
    /\ ~isLoading
    /\ \E v \in { <<>>, <<"q">> } : v # input /\ input' = v
    /\ UNCHANGED <<messages, isLoading, fetches, effectCalls, storeVars,
                   selectedPreview, tasks, invocations, rejected, keyVars>>

\* handleSubmit up to `await fetch(...)`: the user message is appended, the
\* message list changes and the effect runs over the new list.
HandleSubmit ==
    /\ input # <<>>
    /\ LET next == Append(messages, [role |-> "user", documents |-> <<>>])
       IN  /\ Len(next) + fetches + 1 <= MaxMessages
           /\ CanAppend(next)
           /\ messages' = next
           /\ tasks' = MessagesEffect(next)
           /\ effectCalls' = EffectCalls(next)
    /\ isLoading' = TRUE
    /\ fetches' = fetches + 1
    /\ UNCHANGED <<input, storeVars, selectedPreview, invocations,
                   rejected, keyVars>>

\* variant of MapDocuments that stores the locator as received
RECURSIVE MapDocumentsRaw(_)
MapDocumentsRaw(docs) ==
    IF docs = <<>> THEN <<>>
    ELSE <<[url |-> Head(docs).url, page |-> Head(docs).page]>>
             \o MapDocumentsRaw(Tail(docs))

\* data.documents.map(doc => ({...doc, url: cleanUrl, ...}))
RECURSIVE MapDocuments(_)
MapDocuments(docs) ==
    IF docs = <<>> THEN <<>>
    ELSE <<[url |-> cleanUrl(Head(docs).url), page |-> Head(docs).page]>>
             \o MapDocuments(Tail(docs))

Answers == UNION { [1..n -> AnswerCitations] : n \in 0..MaxDocs }

\* handleSubmit after the backend answered with a well-formed response
SubmitAnswered ==
    /\ fetches > 0
    /\ \E documents \in Answers :
         LET next == Append(messages, [role |-> "assistant",
                                       documents |-> MapDocuments(documents)])
         IN  /\ CanAppend(next)
             /\ messages' = next
             /\ tasks' = MessagesEffect(next)
             /\ effectCalls' = EffectCalls(next)
    /\ fetches' = fetches - 1
    /\ isLoading' = FALSE
    /\ input' = <<>>
    /\ UNCHANGED <<storeVars, selectedPreview, invocations, rejected, keyVars>>

\* handleSubmit after fetch or parsing failed: an assistant message without
\* documents is appended
SubmitFailed ==
    /\ fetches > 0
    /\ LET next == Append(messages, [role |-> "assistant", documents |-> <<>>])
       IN  /\ CanAppend(next)
           /\ messages' = next
           /\ tasks' = MessagesEffect(next)
           /\ effectCalls' = EffectCalls(next)
    /\ fetches' = fetches - 1
    /\ isLoading' = FALSE
    /\ input' = <<>>
    /\ UNCHANGED <<storeVars, selectedPreview, invocations, rejected, keyVars>>

(***************************************************************************)
(* generatePreview, one action per continuation.                           *)
(***************************************************************************)
KeyOf(t) == previewKey(t.doc.url, t.doc.page)

\* previews.get(previewKey) as the closure of task t sees it
ClosurePreviewsHas(t, k) ==
    IF t.live THEN Truthy(MapGet(previews, k)) ELSE k \in t.snap

Replace(bag, t, u) == (bag (-) SetToBag({t})) (+) SetToBag({u})
Remove(bag, t) == bag (-) SetToBag({t})

\* setLoadingPreviews(prev => ...) of lines 64-69
markPending(prev, t) ==
    IF KeyOf(t) \in prev \/ ClosurePreviewsHas(t, KeyOf(t)) THEN prev
    ELSE prev \cup {KeyOf(t)}

\* lines 58-76: configurePdfjs resolved; the loading set is updated and
\* pdfjs.getDocument is called: the renderer invocation starts.
ConfigureDone(t) ==
    /\ t.pc = "configurePdfjs"
    /\ loadingPreviews' = markPending(loadingPreviews, t)
    /\ invocations' = [invocations EXCEPT ![KeyOf(t)] = @ + 1]
    /\ tasks' = Replace(tasks, t, [t EXCEPT !.pc = "getDocument"])
    /\ UNCHANGED <<previews, largePreviews, previewErrors, chatVars,
                   selectedPreview, rejected, keyVars>>

\* line 58: the dynamic import rejected; the await is outside the try block,
\* so the promise of generatePreview rejects and nothing is written
ConfigureFailed(t) ==
    /\ t.pc = "configurePdfjs"
    /\ tasks' = Remove(tasks, t)
    /\ rejected' = TRUE
    /\ UNCHANGED <<storeVars, chatVars, selectedPreview, invocations, keyVars>>

\* an await of the try block resolved and the task suspends in the next one
Advance(t, from, to) ==
    /\ t.pc = from
    /\ tasks' = Replace(tasks, t, [t EXCEPT !.pc = to])
    /\ UNCHANGED <<storeVars, chatVars, selectedPreview, invocations,
                   rejected, keyVars>>

\* variant of Catch whose finally block empties the loading set
CatchClearingAll(t, message) ==
    /\ previewErrors' = MapSet(previewErrors, KeyOf(t), message)
    /\ loadingPreviews' = {}
    /\ tasks' = Remove(tasks, t)
    /\ UNCHANGED <<previews, largePreviews, chatVars, selectedPreview,
                   invocations, rejected, keyVars>>

\* lines 110-117: catch and finally
Catch(t, message) ==
    /\ previewErrors' = MapSet(previewErrors, KeyOf(t), message)
    /\ loadingPreviews' = loadingPreviews \ {KeyOf(t)}
    /\ tasks' = Remove(tasks, t)
    /\ UNCHANGED <<previews, largePreviews, chatVars, selectedPreview,
                   invocations, rejected, keyVars>>

\* line 111: error.message of a rejection of the rendering engine (opening
\* the file, fetching the page, rasterizing), and the two messages thrown
\* when a canvas has no 2d context
EngineFailure == <<"rejected by the rendering engine">>
SmallContextFailure == <<"Failed to get small canvas context">>
LargeContextFailure == <<"Failed to get large canvas context">>

GetDocumentOk(t) == Advance(t, "getDocument", "getPage")
GetDocumentFailed(t) == t.pc = "getDocument" /\ Catch(t, EngineFailure)

\* lines 78-92: the page is there, the small canvas context is obtained
GetPageOk(t) == Advance(t, "getPage", "renderSmall")
GetPageFailed(t) ==
    /\ t.pc = "getPage"
    /\ \E m \in {EngineFailure, SmallContextFailure} : Catch(t, m)

\* variant of RenderSmallOk that stores the small bitmap as soon as it is
\* rendered, before the large rasterization
RenderSmallOkEager(t) ==
    /\ t.pc = "renderSmall"
    /\ previews' = MapSet(previews, KeyOf(t), toDataURL("0.5", t.doc))
    /\ tasks' = Replace(tasks, t, [t EXCEPT !.pc = "renderLarge"])
    /\ UNCHANGED <<largePreviews, loadingPreviews, previewErrors, chatVars,
                   selectedPreview, invocations, rejected, keyVars>>

\* lines 94-106
RenderSmallOk(t) == Advance(t, "renderSmall", "renderLarge")
RenderSmallFailed(t) ==
    /\ t.pc = "renderSmall"
    /\ \E m \in {EngineFailure, LargeContextFailure} : Catch(t, m)

\* a closure that read the replaced Map object keeps the keys it had
Freeze(u, keys) == IF u.live THEN [u EXCEPT !.live = FALSE, !.snap = keys] ELSE u

FreezeAll(bag, keys) ==
    LET S == BagToSet(bag)
        T == { Freeze(u, keys) : u \in S }
    IN  [x \in T |-> LET P == { u \in S : Freeze(u, keys) = x }
                         f[Q \in SUBSET P] ==
                             IF Q = {} THEN 0
                             ELSE LET u == CHOOSE u \in Q : TRUE
                                  IN  bag[u] + f[Q \ {u}]
                     IN  f[P]]

\* lines 108-109 and 113-117: both bitmaps are stored and the key leaves the
\* loading set
RenderLargeOk(t) ==
    /\ t.pc = "renderLarge"
    /\ previews' = MapSet(previews, KeyOf(t), toDataURL("0.5", t.doc))
    /\ largePreviews' = MapSet(largePreviews, KeyOf(t), toDataURL("1.5", t.doc))
    /\ loadingPreviews' = loadingPreviews \ {KeyOf(t)}
    /\ tasks' = FreezeAll(Remove(tasks, t), DOMAIN previews')
    /\ UNCHANGED <<previewErrors, chatVars, selectedPreview, invocations,
                   rejected, keyVars>>

RenderLargeFailed(t) == t.pc = "renderLarge" /\ Catch(t, EngineFailure)

(***************************************************************************)
(* The thumbnail view and the modal.                                       *)
(***************************************************************************)
\* lines 295-372: what the message list shows for one citation
Thumbnail(doc) ==
    LET key == previewKey(doc.url, doc.page)
        previewUrl == MapGet(previews, key)
        loading == key \in loadingPreviews
        error == MapGet(previewErrors, key)
    IN  IF Truthy(error) THEN "open the PDF"
        ELSE IF loading THEN "spinner"
        ELSE IF ~Truthy(previewUrl) THEN "nothing"
        ELSE "thumbnail"

\* variant of handlePreviewClick that reads the small cache
handlePreviewClickSmall(doc) ==
    LET url == cleanUrl(doc.url)
        key == previewKey(url, doc.page)
        largePreviewUrl == MapGet(previews, key)
    IN  IF Truthy(largePreviewUrl)
        THEN <<[url |-> url, page |-> doc.page,
                largePreviewUrl |-> largePreviewUrl]>>
        ELSE selectedPreview

\* lines 226-238: the value of selectedPreview after handlePreviewClick(doc)
handlePreviewClick(doc) ==
    LET url == cleanUrl(doc.url)
        key == previewKey(url, doc.page)
        largePreviewUrl == MapGet(largePreviews, key)
    IN  IF Truthy(largePreviewUrl)
        THEN <<[url |-> url, page |-> doc.page,
                largePreviewUrl |-> largePreviewUrl]>>
        ELSE selectedPreview

Shown == { AllDocuments(messages)[i] : i \in 1..Len(AllDocuments(messages)) }

\* the eye button exists only on a shown thumbnail (lines 336-356)
PreviewClick(doc) ==
    /\ doc \in Shown
    /\ Thumbnail(doc) = "thumbnail"
    /\ selectedPreview' = handlePreviewClick(doc)
    /\ UNCHANGED <<storeVars, chatVars, tasks, invocations, rejected, keyVars>>

\* lines 221-224: the address handleDocumentClick opens in a new window
documentLink(doc) ==
    (IF \E i \in 1..Len(doc.url) : doc.url[i] = "?"
     THEN SplitFirst(doc.url, "?") ELSE doc.url)
        \o <<"#", "p", "a", "g", "e", "=">> \o NumberToString(doc.page)

\* the error affordance and the external-link button of a thumbnail (lines
\* 305 and 360): window.open only, no state of Home is written
HandleDocumentClick(doc) ==
    /\ doc \in Shown
    /\ Thumbnail(doc) \in {"open the PDF", "thumbnail"}
    /\ Len(documentLink(doc)) > 0
    /\ UNCHANGED vars

\* variant of CloseModal that also drops the large bitmap it showed
CloseModalEvicting ==
    /\ selectedPreview # null
    /\ selectedPreview' = null
    /\ largePreviews' =
         [k \in DOMAIN largePreviews \
                  {previewKey(selectedPreview[1].url, selectedPreview[1].page)}
             |-> largePreviews[k]]
    /\ UNCHANGED <<previews, loadingPreviews, previewErrors, chatVars, tasks,
                   invocations, rejected, keyVars>>

\* lines 436 and 452: setSelectedPreview(null)
CloseModal ==
    /\ selectedPreview # null
    /\ selectedPreview' = null
    /\ UNCHANGED <<storeVars, chatVars, tasks, invocations, rejected, keyVars>>

(***************************************************************************)
(* Specification of the application.                                       *)
(***************************************************************************)
Next ==
    \/ SetInput
    \/ HandleSubmit
    \/ SubmitAnswered
    \/ SubmitFailed
    \/ \E t \in BagToSet(tasks) : ConfigureDone(t)
    \/ \E t \in BagToSet(tasks) : ConfigureFailed(t)
    \/ \E t \in BagToSet(tasks) : GetDocumentOk(t)
    \/ \E t \in BagToSet(tasks) : GetDocumentFailed(t)
    \/ \E t \in BagToSet(tasks) : GetPageOk(t)
    \/ \E t \in BagToSet(tasks) : GetPageFailed(t)
    \/ \E t \in BagToSet(tasks) : RenderSmallOk(t)
    \/ \E t \in BagToSet(tasks) : RenderSmallFailed(t)
    \/ \E t \in BagToSet(tasks) : RenderLargeOk(t)
    \/ \E t \in BagToSet(tasks) : RenderLargeFailed(t)
    \/ \E doc \in StoredDocs : PreviewClick(doc)
    \/ \E doc \in StoredDocs : HandleDocumentClick(doc)
    \/ CloseModal

Spec == Init /\ [][Next]_vars

(***************************************************************************)
(* Specification of key derivation: two citations are drawn and their keys *)
(* derived as handleSubmit (line 186, 190) and handlePreviewClick (lines   *)
(* 227-228) derive them.                                                   *)
(***************************************************************************)
InitKey ==
    /\ messages = <<>>
    /\ input = <<>>
    /\ isLoading = FALSE
    /\ previews = EmptyMap
    /\ largePreviews = EmptyMap
    /\ loadingPreviews = {}
    /\ previewErrors = EmptyMap
    /\ selectedPreview = null
    /\ tasks = EmptyBag
    /\ fetches = 0
    /\ invocations = [k \in Keys |-> 0]
    /\ rejected = FALSE
    /\ effectCalls = <<>>
    /\ citA \in Citations /\ citB \in Citations
    /\ keyA = <<>> /\ keyB = <<>>

DrawCitations ==
    /\ citA' \in Citations
    /\ citB' \in Citations
    /\ keyA' = <<>> /\ keyB' = <<>>
    /\ UNCHANGED <<storeVars, chatVars, selectedPreview, tasks, invocations,
                   rejected>>

DeriveKeys ==
    /\ keyA = <<>>
    /\ keyA' = deriveKey(citA)
    /\ keyB' = deriveKey(citB)
    /\ UNCHANGED <<citA, citB, storeVars, chatVars, selectedPreview, tasks,
                   invocations, rejected>>

NextKey == DrawCitations \/ DeriveKeys

SpecKey == InitKey /\ [][NextKey]_vars

(***************************************************************************)
(* The state of a key, read from the four stores.                          *)
(***************************************************************************)
Idle(k) ==
    /\ ~MapHas(previews, k) /\ ~MapHas(largePreviews, k)
    /\ k \notin loadingPreviews /\ ~MapHas(previewErrors, k)

Pending(k) ==
    /\ ~MapHas(previews, k) /\ ~MapHas(largePreviews, k)
    /\ k \in loadingPreviews /\ ~MapHas(previewErrors, k)

Ready(k) ==
    /\ MapHas(previews, k) /\ MapHas(largePreviews, k)
    /\ k \notin loadingPreviews /\ ~MapHas(previewErrors, k)

Failed(k) ==
    /\ ~MapHas(previews, k) /\ ~MapHas(largePreviews, k)
    /\ k \notin loadingPreviews /\ MapHas(previewErrors, k)

\* the awaits of the try block: a renderer invocation is outstanding
RenderStages == {"getDocument", "getPage", "renderSmall", "renderLarge"}

Outstanding(k) ==
    { t \in BagToSet(tasks) : t.pc \in RenderStages /\ KeyOf(t) = k }

OutstandingCount(k) ==
    LET S == Outstanding(k)
        f[Q \in SUBSET S] ==
            IF Q = {} THEN 0
            ELSE LET u == CHOOSE u \in Q : TRUE IN tasks[u] + f[Q \ {u}]
    IN  f[S]

(***************************************************************************)
(* Claims.                                                                 *)
(***************************************************************************)

\* C1 -- Exclusivity: in every reachable state each key has at most one
\* renderer invocation that has started and not yet completed.
Exclusivity == \A k \in Keys : OutstandingCount(k) <= 1

\* C2 -- Idempotence: however often generatePreview is called for citations
\* of one key, the renderer is invoked at most once for that key over the
\* whole run.
Idempotence == \A k \in Keys : invocations[k] <= 1

\* C3 -- No-regress: once a key is Ready, every step leaves it Ready with the
\* same two bitmaps (never loading again, never an error entry).
NoRegress ==
    [][\A k \in Keys :
         Ready(k) => /\ Ready(k)'
                     /\ previews'[k] = previews[k]
                     /\ largePreviews'[k] = largePreviews[k]]_vars

\* C4 -- Failed is terminal: once a key is Failed, no step invokes the
\* renderer for it and every step leaves it Failed.
FailedIsTerminal ==
    [][\A k \in Keys :
         Failed(k) => /\ Failed(k)'
                      /\ invocations'[k] = invocations[k]]_vars

\* C5 -- Totality: in every reachable state each key is Idle, Pending, Ready
\* or Failed; these four are mutually exclusive, so no key is at once
\* loading and cached, loading and errored, or cached and errored.
Totality == \A k \in Keys : Idle(k) \/ Pending(k) \/ Ready(k) \/ Failed(k)

\* two citations whose locators are decorations of one base locator
SameBase(a, b) ==
    \E base \in Bases : \E d1, d2 \in Decorations :
        a.url = base \o d1 /\ b.url = base \o d2

\* C6 -- Key derivation: two citations whose locators differ only in their
\* fragment/query decoration get the same key exactly when their page
\* numbers are equal.
KeyDerivation ==
    (keyA # <<>> /\ SameBase(citA, citB)) =>
        ((keyA = keyB) <=> (citA.page = citB.page))

\* keys have been derived for two differently decorated locators of one base
\* with the same page, and for two with different pages
KeyDerivationWitness ==
    /\ keyA # <<>>
    /\ SameBase(citA, citB)
    /\ citA.url # citB.url
    /\ citA.page = citB.page
    /\ keyA = keyB

\* C7 -- selectForModal: for every citation of the message list,
\* handlePreviewClick leaves selectedPreview unchanged while the key is
\* Pending; where the view offers the click and it changes selectedPreview,
\* the key is Ready and the selection carries the cached large bitmap; an
\* open modal shows the large bitmap cached for its key.
SelectForModal ==
    /\ \A doc \in Shown :
         LET key == previewKey(doc.url, doc.page)
             sel == handlePreviewClick(doc)
         IN  /\ Pending(key) => sel = selectedPreview
             /\ (Thumbnail(doc) = "thumbnail" /\ sel # selectedPreview) =>
                    /\ Ready(key)
                    /\ sel # null
                    /\ sel[1].largePreviewUrl = largePreviews[key]
    /\ selectedPreview # null =>
         LET key == previewKey(selectedPreview[1].url, selectedPreview[1].page)
         IN  /\ MapHas(largePreviews, key)
             /\ selectedPreview[1].largePreviewUrl = largePreviews[key]

\* the modal is open on one citation while another citation is Pending
SelectForModalWitness ==
    /\ selectedPreview # null
    /\ \E doc \in Shown : Pending(previewKey(doc.url, doc.page))
    /\ \E doc \in Shown : Ready(previewKey(doc.url, doc.page))

\* a step in which a renderer invocation of task t fails
RenderFailedStep(t) ==
    \/ GetDocumentFailed(t)
    \/ GetPageFailed(t)
    \/ RenderSmallFailed(t)
    \/ RenderLargeFailed(t)

\* C8 -- Render errors are recovered locally: a step in which a renderer
\* invocation for key k fails rejects no promise, leaves k Failed with a
\* non-empty message in the error map, and the thumbnail of k shows the
\* external-open affordance.
ErrorsRecoveredLocally ==
    [][\A t \in BagToSet(tasks) :
         RenderFailedStep(t) =>
            /\ rejected' = rejected
            /\ Failed(KeyOf(t))'
            /\ Truthy(MapGet(previewErrors, KeyOf(t)))'
            /\ Thumbnail(t.doc)' = "open the PDF"]_vars

\* C9 -- No partial results: in every reachable state the small cache and the
\* large cache hold bitmaps for the same keys.
NoPartialResults ==
    \A k \in Keys : MapHas(previews, k) <=> MapHas(largePreviews, k)

\* one key has both bitmaps while a render of another key failed in its
\* second rasterization and cached nothing
NoPartialResultsWitness ==
    \E k1, k2 \in Keys :
        /\ MapHas(previews, k1) /\ MapHas(largePreviews, k1)
        /\ MapGet(previewErrors, k2) \in {EngineFailure, LargeContextFailure}
        /\ ~MapHas(previews, k2) /\ ~MapHas(largePreviews, k2)

\* C10 -- Pending persists: while a renderer invocation for key k is
\* outstanding, k is in the loading set.
PendingPersists ==
    \A t \in BagToSet(tasks) :
        t.pc \in RenderStages => KeyOf(t) \in loadingPreviews

\* C11 -- Lifecycle order: in every step each key keeps its state or moves
\* Idle -> Pending, Pending -> Ready or Pending -> Failed; it is never in a
\* mixed state, and Ready and Failed are never left.
LifecycleOrder ==
    [][\A k \in Keys :
         \/ Idle(k) /\ (Idle(k)' \/ Pending(k)')
         \/ Pending(k) /\ (Pending(k)' \/ Ready(k)' \/ Failed(k)')
         \/ Ready(k) /\ Ready(k)'
         \/ Failed(k) /\ Failed(k)']_vars

\* the entries of key k in the four stores
Entries(k) ==
    <<MapGet(previews, k), MapGet(largePreviews, k), k \in loadingPreviews,
      MapGet(previewErrors, k)>>

\* a step of the generatePreview call t that writes the stores: its render
\* starts, succeeds or fails
RenderStoreStep(t) ==
    \/ ConfigureDone(t)
    \/ RenderLargeOk(t)
    \/ RenderFailedStep(t)

\* C12 -- Per-key isolation: the small bitmap, large bitmap, loading flag and
\* error message of a key change only in a step in which a render for that
\* very key starts, succeeds or fails; such a step of a call for key k thus
\* leaves the entries of every other key unchanged.
PerKeyIsolation ==
    [][storeVars' # storeVars => \A k \in Keys :
         Entries(k)' # Entries(k) =>
            \E t \in BagToSet(tasks) : KeyOf(t) = k /\ RenderStoreStep(t)]_vars

\* renders completed out of order: the key cited second is resolved while
\* the key cited first is still loading
PerKeyIsolationWitness ==
    \E i, j \in 1..Len(AllDocuments(messages)) :
        LET first == AllDocuments(messages)[i]
            second == AllDocuments(messages)[j]
        IN  /\ i < j
            /\ Pending(previewKey(first.url, first.page))
            /\ \/ Ready(previewKey(second.url, second.page))
               \/ Failed(previewKey(second.url, second.page))

\* a step of a handler other than generatePreview, or of the effect (which
\* runs inside the step that changes the message list); an answer appends a
\* message and a preview click sets the selection, so these two are looked
\* for only in the steps that change the message list or the selection
HandlerStep ==
    \/ SetInput
    \/ HandleSubmit
    \/ messages' # messages /\ SubmitAnswered
    \/ SubmitFailed
    \/ CloseModal
    \/ selectedPreview' # selectedPreview
          /\ \E doc \in StoredDocs : PreviewClick(doc)
    \/ \E doc \in StoredDocs : HandleDocumentClick(doc)

\* C13 -- Only generatePreview writes the stores: handleSubmit,
\* handlePreviewClick, handleDocumentClick, closing the modal and the
\* message-list effect leave the four stores unchanged, and every step that
\* changes a store is a continuation of a generatePreview call.
OnlySchedulerWrites ==
    [][storeVars' # storeVars =>
         /\ ~HandlerStep
         /\ \E t \in BagToSet(tasks) : RenderStoreStep(t)]_vars

\* the modal is open and a second question was submitted while the stores
\* hold bitmaps and an error message
OnlySchedulerWritesWitness ==
    /\ Len(messages) >= 3
    /\ selectedPreview # null
    /\ previews # EmptyMap
    /\ previewErrors # EmptyMap

\* number of citations in the messages before message m
RECURSIVE Offset(_, _)
Offset(msgs, m) ==
    IF m <= 1 THEN 0
    ELSE Offset(msgs, m - 1) + Len(msgs[m - 1].documents)

\* number of positions of the sequence calls that hold doc
Occurrences(calls, doc) == Cardinality({ i \in 1..Len(calls) : calls[i] = doc })

\* C14 -- On every message-list change generatePreview is called once for
\* each citation occurrence of every message of the new list, in message
\* order, whether or not the citation was submitted before: the calls are
\* the citations of message 1, then of message 2, ..., and each call is a
\* new generatePreview task.
EffectEnumeratesAll ==
    [][messages' # messages =>
         /\ Len(effectCalls') = Offset(messages', Len(messages') + 1)
         /\ \A m \in 1..Len(messages') :
               \A d \in 1..Len(messages'[m].documents) :
                   effectCalls'[Offset(messages', m) + d]
                       = messages'[m].documents[d]
         /\ \A doc \in StoredDocs :
               CopiesIn(NewTask(doc), tasks')
                   = CopiesIn(NewTask(doc), tasks)
                       + Occurrences(effectCalls', doc)]_vars

\* the effect ran over two citing messages: the citation of the earlier
\* one, already resolved, was submitted again
EffectEnumeratesAllWitness ==
    /\ Len(effectCalls) >= 2
    /\ LET k == previewKey(effectCalls[1].url, effectCalls[1].page)
       IN  MapHas(previews, k) \/ MapHas(previewErrors, k)
    /\ BagCardinality(tasks) >= 2

\* C15 -- Key agreement: for every citation of the message list the key
\* generatePreview writes and the thumbnail reads (url_page, unstripped)
\* equals the key handlePreviewClick reads (stripped url_page): the stored
\* locator is canonical and stripping it again changes nothing.
KeyAgreement ==
    /\ \A doc \in Shown :
         /\ cleanUrl(doc.url) = doc.url
         /\ previewKey(doc.url, doc.page) = deriveKey(doc)
    /\ \A t \in BagToSet(tasks) : KeyOf(t) = deriveKey(t.doc)
    /\ \A i \in 1..Len(effectCalls) :
         previewKey(effectCalls[i].url, effectCalls[i].page)
             = deriveKey(effectCalls[i])

\* generatePreview wrote a citation's bitmaps, the view shows its thumbnail
\* and handlePreviewClick opened the modal on it
KeyAgreementWitness ==
    /\ selectedPreview # null
    /\ \E doc \in Shown :
         /\ Thumbnail(doc) = "thumbnail"
         /\ selectedPreview[1].url = doc.url
         /\ selectedPreview[1].page = doc.page
         /\ selectedPreview[1].largePreviewUrl
                = largePreviews[previewKey(doc.url, doc.page)]

\* every generatePreview call has returned
Quiescent == tasks = EmptyBag

\* C16 -- Eventual resolution, as the final result of a run: once every
\* generatePreview call has returned, the loading set is empty and every key
\* cited in the message list has cached bitmaps or an error message.
EventualResolution ==
    Quiescent =>
        /\ loadingPreviews = {}
        /\ \A doc \in Shown :
             LET k == previewKey(doc.url, doc.page)
             IN  \/ MapHas(previews, k) /\ MapHas(largePreviews, k)
                 \/ MapHas(previewErrors, k)

(***************************************************************************)
(* Specification of key injectivity: two canonical locators that may hold  *)
(* the separator and digits are drawn with their page numbers, and their   *)
(* cache keys built as generatePreview builds them (line 61).              *)
(***************************************************************************)
LocatorAlphabet == {"a", "_", "1"}
Locators == UNION { [1..n -> LocatorAlphabet] : n \in 0..MaxLocatorLen }
CanonicalCitations == [url : Locators, page : 1..MaxPageNumber]

InitInjective ==
    /\ messages = <<>>
    /\ input = <<>>
    /\ isLoading = FALSE
    /\ previews = EmptyMap
    /\ largePreviews = EmptyMap
    /\ loadingPreviews = {}
    /\ previewErrors = EmptyMap
    /\ selectedPreview = null
    /\ tasks = EmptyBag
    /\ fetches = 0
    /\ invocations = [k \in Keys |-> 0]
    /\ rejected = FALSE
    /\ effectCalls = <<>>
    /\ citA \in CanonicalCitations /\ citB \in CanonicalCitations
    /\ keyA = <<>> /\ keyB = <<>>

BuildKeys ==
    /\ keyA = <<>>
    /\ keyA' = previewKey(citA.url, citA.page)
    /\ keyB' = previewKey(citB.url, citB.page)
    /\ UNCHANGED <<citA, citB, storeVars, chatVars, selectedPreview, tasks,
                   invocations, rejected>>

NextInjective == BuildKeys

SpecInjective == InitInjective /\ [][NextInjective]_vars

\* C17 -- Key injectivity: two citations that differ in canonical locator or
\* in page number get different cache keys, also when the locator contains
\* '_' or ends in digits.
KeyInjectivity ==
    keyA # <<>> =>
        ((citA.url # citB.url \/ citA.page # citB.page) => keyA # keyB)

\* keys were built for '_1' page 1 and '_' page 11, which differ only in
\* where the separator falls
KeyInjectivityWitness ==
    /\ citA = [url |-> <<"_", "1">>, page |-> 1]
    /\ citB = [url |-> <<"_">>, page |-> 11]
    /\ keyA = <<"_", "1", "_", "1">>
    /\ keyB = <<"_", "_", "1", "1">>

====
